---- MODULE Spec2Model ----
(***************************************************************************)
(* State-machine model of the media playback control engine of             *)
(* sencloud-gui: the MediaPlayer component ("Complete Updated Version with *)
(* Episode Navigation", src/src/components/MediaPlayer.tsx lines 405-1781) *)
(* together with the host page that owns isOpen / media                    *)
(* (src/unnamed/part_006 lines 292-756), the browser's timers, fullscreen  *)
(* and screen-orientation services, and the HTML media element.            *)
(*                                                                         *)
(* Every handler of the component is an operator from a state record to a  *)
(* state record, so that a handler can call another one as the code does;  *)
(* an action applies a handler to the current state, then runs the React   *)
(* effects whose dependencies changed (Render), and commits the result.    *)
(***************************************************************************)
EXTENDS Integers, Sequences, FiniteSets, TLC

(***************************************************************************)
(* Bounds of the model.                                                    *)
(***************************************************************************)
NumItems == 4        \* items of the host's catalogue
MaxPlays == 2        \* play() promises pending at the same time
MaxFsTasks == 1      \* fullscreen and orientation promises pending at a time
MaxFetches == 2      \* fetchEpisodeData calls in flight at the same time
MaxDelayed == 1      \* delayed handleMouseMove callbacks pending at a time
MaxCountdowns == 1   \* autoplay countdowns pending at the same time
MaxEndedAgain == 2   \* countdowns pending once "ended" has come again
MaxVideoInfo == 2    \* getVideoInfo requests of the host in flight
MaxMediaEvents == 2  \* media element events queued and not yet delivered
MaxFsEvents == 1     \* fullscreenchange events queued and not yet delivered
MaxToggles == 2      \* togglePlayPause calls counted in one run of calls
MediaDuration == 12  \* seconds a media file lasts

(***************************************************************************)
(* Program constants.                                                      *)
(***************************************************************************)
InitialVolume == 75
VolumeStep == 5
SkipSeconds == 10

VARIABLES
  \* host page (part_006: selectedMedia, isPlayerOpen, the items listed)
  isOpen, media, galleryItems,
  \* component state (useState)
  isPlaying, isMuted, currentTime, duration, volume, isFullscreen,
  showControls, showNextEpisode, showRecommendations, playbackRate,
  isBuffering, autoplayNext, isNativeFullscreen, isMobileFullscreen,
  nextEpisode, previousEpisode, episodeList, currentEpisodeIndex,
  episodeLoading,
  \* component refs
  controlsTimeoutRef,
  \* browser: timers, promises, document and screen
  timers, tasks, fullscreenElement, fsEvents, bodyOverflowHidden,
  orientationLocked, containerStyled,
  \* media element
  elPaused, elVolume, elMuted, elRate, elTime, elDuration, mediaEvents,
  \* device the page runs on
  mobileDevice, fullscreenApi, orientationApi,
  \* observation: the handler that ran last with the host callbacks it fired,
  \* the kind of the last toggleFullscreen call, and the current run of
  \* togglePlayPause calls made with no engine event delivered in between
  last, fsSeq, toggleRun

vars == <<isOpen, media, galleryItems, isPlaying, isMuted, currentTime, duration, volume,
          isFullscreen, showControls, showNextEpisode, showRecommendations,
          playbackRate, isBuffering, autoplayNext, isNativeFullscreen,
          isMobileFullscreen, nextEpisode, previousEpisode, episodeList,
          currentEpisodeIndex, episodeLoading, controlsTimeoutRef, timers,
          tasks, fullscreenElement, fsEvents, bodyOverflowHidden,
          orientationLocked, containerStyled, elPaused, elVolume, elMuted,
          elRate, elTime, elDuration, mediaEvents, mobileDevice,
          fullscreenApi, orientationApi, last, fsSeq, toggleRun>>

(***************************************************************************)
(* The catalogue and the Episode Directory Service.                        *)
(***************************************************************************)
Items == 1..NumItems

\* media.type of a catalogue item: two episodes of one series, an audio
\* track, and images.
\* The copy {...item, duration} the host makes of item i once its video
\* info has come (part_006:437-442): another object with the same id.
EnhancedItem(i) == NumItems + i

\* item.id of an object: of a catalogue item, or of an enhanced copy.
IdOf(o) == IF o > NumItems THEN o - NumItems ELSE o

TypeOf(i) ==
  CASE IdOf(i) = 1 -> "video"
    [] IdOf(i) = 2 -> "video"
    [] IdOf(i) = 3 -> "audio"
    [] OTHER -> "image"

\* What the directory answers, when it answers with success, for the file of
\* item i: items 1 and 2 are episodes 1 and 2 of the same series.
DirNext(i) == IF IdOf(i) = 1 THEN 2 ELSE 0
DirPrevious(i) == IF IdOf(i) = 2 THEN 1 ELSE 0
DirSeries(i) == IF IdOf(i) \in {1, 2} THEN <<1, 2>> ELSE <<>>

\* seriesData.episodes.findIndex(ep => ep.is_current): the 0-based place of
\* the episode the request was made for, -1 when there is none.
FindCurrent(list, i) ==
  IF \E k \in 1..Len(list) : list[k] = i
  THEN (CHOOSE k \in 1..Len(list) : list[k] = i) - 1
  ELSE -1

(***************************************************************************)
(* The state as a record, and closures.                                    *)
(***************************************************************************)
S ==
  [isOpen |-> isOpen, media |-> media, galleryItems |-> galleryItems,
   isPlaying |-> isPlaying,
   isMuted |-> isMuted, currentTime |-> currentTime, duration |-> duration,
   volume |-> volume, isFullscreen |-> isFullscreen,
   showControls |-> showControls, showNextEpisode |-> showNextEpisode,
   showRecommendations |-> showRecommendations,
   playbackRate |-> playbackRate, isBuffering |-> isBuffering,
   autoplayNext |-> autoplayNext, isNativeFullscreen |-> isNativeFullscreen,
   isMobileFullscreen |-> isMobileFullscreen, nextEpisode |-> nextEpisode,
   previousEpisode |-> previousEpisode, episodeList |-> episodeList,
   currentEpisodeIndex |-> currentEpisodeIndex,
   episodeLoading |-> episodeLoading,
   controlsTimeoutRef |-> controlsTimeoutRef, timers |-> timers,
   tasks |-> tasks, fullscreenElement |-> fullscreenElement,
   fsEvents |-> fsEvents, bodyOverflowHidden |-> bodyOverflowHidden,
   orientationLocked |-> orientationLocked,
   containerStyled |-> containerStyled, elPaused |-> elPaused,
   elVolume |-> elVolume, elMuted |-> elMuted, elRate |-> elRate,
   elTime |-> elTime, elDuration |-> elDuration,
   mediaEvents |-> mediaEvents, mobileDevice |-> mobileDevice,
   fullscreenApi |-> fullscreenApi, orientationApi |-> orientationApi,
   fsSeq |-> fsSeq, toggleRun |-> toggleRun,
   \* transient, used while one action runs: the host handed the component a
   \* new media object; screen.orientation.unlock() throws when called; the
   \* host callbacks fired so far
   mediaChanged |-> FALSE, unlockThrows |-> FALSE, calls |-> <<>>]

\* What `last` holds after a step that fired no host callback.
NoCalls == [op |-> "", calls |-> <<>>]

\* Handlers that `last` names even when they fired no host callback.
CloseOps == {"handleClose", "escapeClose"}
ReplaceOps ==
  {"playNextEpisode", "playPreviousEpisode", "playEpisodeFromList",
   "recommendedSelect"}
ObservedOps ==
  {"skipBack", "skipForward", "escapeFullscreen", "keyInText",
   "fetchThrewRecorded", "handleEndedAgain", "videoInfo"}
    \cup CloseOps \cup ReplaceOps

Commit(op, s) ==
  /\ galleryItems' = s.galleryItems
  /\ isOpen' = s.isOpen
  /\ media' = s.media
  /\ isPlaying' = s.isPlaying
  /\ isMuted' = s.isMuted
  /\ currentTime' = s.currentTime
  /\ duration' = s.duration
  /\ volume' = s.volume
  /\ isFullscreen' = s.isFullscreen
  /\ showControls' = s.showControls
  /\ showNextEpisode' = s.showNextEpisode
  /\ showRecommendations' = s.showRecommendations
  /\ playbackRate' = s.playbackRate
  /\ isBuffering' = s.isBuffering
  /\ autoplayNext' = s.autoplayNext
  /\ isNativeFullscreen' = s.isNativeFullscreen
  /\ isMobileFullscreen' = s.isMobileFullscreen
  /\ nextEpisode' = s.nextEpisode
  /\ previousEpisode' = s.previousEpisode
  /\ episodeList' = s.episodeList
  /\ currentEpisodeIndex' = s.currentEpisodeIndex
  /\ episodeLoading' = s.episodeLoading
  /\ controlsTimeoutRef' = s.controlsTimeoutRef
  /\ timers' = s.timers
  /\ tasks' = s.tasks
  /\ fullscreenElement' = s.fullscreenElement
  /\ fsEvents' = s.fsEvents
  /\ bodyOverflowHidden' = s.bodyOverflowHidden
  /\ orientationLocked' = s.orientationLocked
  /\ containerStyled' = s.containerStyled
  /\ elPaused' = s.elPaused
  /\ elVolume' = s.elVolume
  /\ elMuted' = s.elMuted
  /\ elRate' = s.elRate
  /\ elTime' = s.elTime
  /\ elDuration' = s.elDuration
  /\ mediaEvents' = s.mediaEvents
  /\ mobileDevice' = s.mobileDevice
  /\ fullscreenApi' = s.fullscreenApi
  /\ orientationApi' = s.orientationApi
  /\ fsSeq' = s.fsSeq
  /\ toggleRun' = s.toggleRun
  /\ last' = IF s.calls = <<>> /\ op \notin ObservedOps
             THEN NoCalls
             ELSE [op |-> op, calls |-> s.calls]

\* The values of one render that a callback created in that render reads
\* later: a promise continuation or a timer callback keeps them as they were.
Closure(s) ==
  [isFullscreen |-> s.isFullscreen,
   isMobileFullscreen |-> s.isMobileFullscreen,
   isPlaying |-> s.isPlaying,
   isImage |-> s.media # 0 /\ TypeOf(s.media) = "image",
   isNativeFullscreen |-> s.isNativeFullscreen,
   nextEpisode |-> s.nextEpisode,
   media |-> s.media]

NoClosure ==
  [isFullscreen |-> FALSE, isMobileFullscreen |-> FALSE, isPlaying |-> FALSE,
   isImage |-> FALSE, isNativeFullscreen |-> FALSE, nextEpisode |-> 0,
   media |-> 0]

\* media?.type
MediaType(s) == IF s.media = 0 THEN "none" ELSE TypeOf(s.media)

\* recommendedMedia of the host for the selected item (part_006: same type
\* or genre, not the item itself); the genre is not modelled.
Recommended(s) ==
  {j \in s.galleryItems : j # IdOf(s.media) /\ TypeOf(j) = MediaType(s)}

\* getCurrentMediaElement() # null: the video or audio element is rendered.
HasMediaElement(s) ==
  s.isOpen /\ s.media # 0 /\ TypeOf(s.media) \in {"video", "audio"}

\* playerContainerRef.current # null: the component renders (line 1270).
HasContainer(s) == s.isOpen /\ s.media # 0

(***************************************************************************)
(* Browser timers and promises.                                            *)
(***************************************************************************)
\* A pending setTimeout: its handle, what its callback is, and the closure
\* the callback was created in.
\*   "hide"       setShowControls(false) after 3000 ms       (line 879)
\*   "mouseMove"  handleMouseMove() after 500 ms             (line 1011)
\*   "countdown"  playNextEpisode() after 5000 ms            (line 1081)
Timer(id, kind, c) == [id |-> id, kind |-> kind, c |-> c]

TimersOf(s, kind) == {t \in s.timers : t.kind = kind}

\* setTimeout returns a handle that no pending timer has and that the ref
\* does not hold (handles are never reused by the browser; the model reuses
\* one only when nothing can name it any more).
FreshId(s) ==
  CHOOSE i \in 1..(Cardinality(s.timers) + 2) :
    /\ i # s.controlsTimeoutRef
    /\ \A t \in s.timers : t.id # i
    /\ \A j \in 1..(i - 1) :
         j = s.controlsTimeoutRef \/ \E t \in s.timers : t.id = j

\* clearTimeout(h): cancels the pending timer with that handle, if any.
clearTimeout(s, h) == [s EXCEPT !.timers = {t \in @ : t.id # h}]

\* A pending promise with its continuation.
\*   "play"          mediaElement.play()                      (line 894)
\*   "enterFs"       element.requestFullscreen(), desktop     (line 752)
\*   "enterFsLock"   screen.orientation.lock(), desktop       (line 766)
\*   "exitFs"        document.exitFullscreen(), desktop       (line 782)
\*   "mobileLock"    screen.orientation.lock(), mobile        (line 636)
\*   "mobileRequest" container.requestFullscreen(), mobile    (line 659)
\*   "mobileExit"    document.exitFullscreen(), mobile        (line 727)
\*   "fetch"         the three fetches of fetchEpisodeData    (lines 551-560)
\* c is the closure of the render the async function was created in; live
\* says the container the function took from playerContainerRef is still the
\* mounted one; m is the item a fetch was made for. Between its three
\* requests fetchEpisodeData writes nothing, so the model keeps one promise
\* for the three and decides their answers when the last one arrives.
Task(kind, c, m) == [kind |-> kind, c |-> c, live |-> TRUE, m |-> m]

AsyncTask(kind, c) == Task(kind, c, 0)

AddTask(s, t) == [s EXCEPT !.tasks = Append(@, t)]

RemoveAt(seq, i) ==
  [k \in 1..(Len(seq) - 1) |-> IF k < i THEN seq[k] ELSE seq[k + 1]]

EntryKinds == {"enterFs", "enterFsLock", "mobileLock", "mobileRequest"}
FullscreenKinds == EntryKinds \cup {"exitFs", "mobileExit"}

(***************************************************************************)
(* The media element (HTMLMediaElement).                                   *)
(***************************************************************************)
QueueMediaEvent(s, e) == [s EXCEPT !.mediaEvents = Append(@, e)]

\* Pending play() promises are rejected when the element is paused, loaded
\* again or removed: their continuations can only take the catch clause.
RejectPlays(s) ==
  [s EXCEPT !.tasks = [i \in 1..Len(s.tasks) |->
                         IF s.tasks[i].kind = "play"
                         THEN [s.tasks[i] EXCEPT !.live = FALSE]
                         ELSE s.tasks[i]]]

\* play(): a paused element stops being paused and queues "play"; an element
\* that is not paused queues nothing. The returned promise settles later.
ElementPlay(s) ==
  IF s.elPaused
  THEN QueueMediaEvent([s EXCEPT !.elPaused = FALSE], "play")
  ELSE s

\* pause(): an element that is not paused becomes paused and queues "pause".
ElementPause(s) ==
  IF s.elPaused
  THEN s
  ELSE QueueMediaEvent(RejectPlays([s EXCEPT !.elPaused = TRUE]), "pause")

\* A freshly mounted <video>/<audio>: paused, nothing queued, the defaults.
ElementFresh(s) ==
  [RejectPlays(s) EXCEPT !.elPaused = TRUE, !.mediaEvents = <<>>, !.elVolume = 100,
            !.elMuted = FALSE, !.elRate = 100, !.elTime = 0,
            !.elDuration = 0]

\* src = url; load(): the element is paused, the tasks of its event source
\* are dropped, the position is 0 and the duration unknown again.
ElementLoad(s) ==
  [RejectPlays(s) EXCEPT !.elPaused = TRUE, !.mediaEvents = <<>>, !.elTime = 0,
            !.elDuration = 0]

\* A run of togglePlayPause calls ends when anything else touches the
\* element or one of its events is delivered.
NoRun == [n |-> 0, startPaused |-> FALSE]
\* The value of toggleRun in a specification that does not count the calls.
NotCounted == [n |-> -1, startPaused |-> FALSE]
EndRun(s) ==
  IF s.toggleRun = NotCounted THEN s ELSE [s EXCEPT !.toggleRun = NoRun]

(***************************************************************************)
(* Controls visibility (lines 869-883).                                    *)
(***************************************************************************)
\* if (controlsTimeoutRef.current) { clearTimeout(...); ref = null }
clearControlsTimeout(s) ==
  IF s.controlsTimeoutRef # 0
  THEN [clearTimeout(s, s.controlsTimeoutRef) EXCEPT
          !.controlsTimeoutRef = 0]
  ELSE s

\* controlsTimeoutRef.current = setTimeout(() => setShowControls(false), 3000)
armHideTimer(s) ==
  LET id == FreshId(s)
  IN [s EXCEPT !.timers = @ \cup {Timer(id, "hide", NoClosure)},
               !.controlsTimeoutRef = id]

\* handleMouseMove without the clearTimeout of line 870.
handleMouseMoveKeepsTimer(s, c) ==
  IF (c.isFullscreen \/ c.isMobileFullscreen) /\ c.isPlaying /\ ~c.isImage
  THEN armHideTimer([s EXCEPT !.showControls = TRUE])
  ELSE [s EXCEPT !.showControls = TRUE]

\* handleMouseMove as created in the render whose values are c.
handleMouseMove(s, c) ==
  LET s1 == clearControlsTimeout([s EXCEPT !.showControls = TRUE])
  IN IF (c.isFullscreen \/ c.isMobileFullscreen) /\ c.isPlaying
        /\ ~c.isImage
     THEN armHideTimer(s1)
     ELSE s1

(***************************************************************************)
(* Play / pause (lines 886-906).                                           *)
(***************************************************************************)
\* togglePlayPause that also sets isPlaying itself, without waiting for the
\* event of the element.
togglePlayPauseOptimistic(s, c) ==
  IF ~HasMediaElement(s)
  THEN s
  ELSE IF c.isPlaying
       THEN [ElementPause(s) EXCEPT !.showControls = TRUE,
                                    !.isPlaying = FALSE]
       ELSE [ElementPlay(s) EXCEPT !.isPlaying = TRUE]

\* togglePlayPause as created in the render whose values are c. pause()
\* returns nothing, so the code after `await` runs in the same turn; play()
\* returns a promise and the rest runs when it resolves.
togglePlayPause(s, c) ==
  IF ~HasMediaElement(s)
  THEN s
  ELSE IF c.isPlaying
       THEN [ElementPause(s) EXCEPT !.showControls = TRUE]
       ELSE AddTask(ElementPlay(s),
                    AsyncTask("play",
                              [NoClosure EXCEPT
                                 !.isFullscreen = c.isFullscreen,
                                 !.isMobileFullscreen =
                                    c.isMobileFullscreen]))

\* The rest of togglePlayPause once play() has resolved (lines 897-901).
togglePlayPauseResumed(s, c) ==
  LET s1 == [s EXCEPT !.showControls = TRUE]
  IN IF (c.isFullscreen \/ c.isMobileFullscreen) /\ ~c.isPlaying
     THEN handleMouseMove(s1, c)
     ELSE s1

(***************************************************************************)
(* Fullscreen and orientation (lines 625-827).                             *)
(***************************************************************************)
HasEntryPending(s) ==
  \E i \in 1..Len(s.tasks) : s.tasks[i].kind \in EntryKinds

\* document.body.style.overflow = '' (and the documentElement's).
restoreScrolling(s) == [s EXCEPT !.bodyOverflowHidden = FALSE]

\* screen.orientation.unlock(), when the browser has it, inside its own
\* try / catch: a call that throws changes nothing and the caller goes on.
unlockOrientation(s) ==
  IF s.orientationApi /\ ~s.unlockThrows
  THEN [s EXCEPT !.orientationLocked = FALSE]
  ELSE s

\* enterMobileFullscreen after the orientation lock was attempted
\* (lines 643-681), up to the await of requestFullscreen.
enterMobileFullscreenStyled(s, live) ==
  LET s1 == [s EXCEPT !.isMobileFullscreen = TRUE,
                      !.containerStyled = IF live THEN TRUE ELSE @]
  IN IF s.fullscreenApi = "standard"
     THEN AddTask(s1, [AsyncTask("mobileRequest", NoClosure)
                         EXCEPT !.live = live])
     ELSE [s1 EXCEPT !.bodyOverflowHidden = TRUE]

\* enterMobileFullscreen (lines 625-691), up to its first await.
enterMobileFullscreen(s) ==
  IF ~HasContainer(s)
  THEN s
  ELSE IF s.orientationApi
       THEN AddTask(s, AsyncTask("mobileLock", NoClosure))
       ELSE enterMobileFullscreenStyled(s, TRUE)

\* exitMobileFullscreen that leaves the styles of the container in place.
exitMobileFullscreenKeepsStyling(s, native) ==
  IF ~HasContainer(s)
  THEN s
  ELSE restoreScrolling(
         [unlockOrientation(s) EXCEPT !.isMobileFullscreen = FALSE])

\* exitMobileFullscreen as created in a render where isNativeFullscreen was
\* native (lines 693-742), up to its await of document.exitFullscreen():
\* with no fullscreen element that call rejects at once, and the catch
\* clause skips the rest.
exitMobileFullscreen(s, native) ==
  IF ~HasContainer(s)
  THEN s
  ELSE LET s1 == [unlockOrientation(s) EXCEPT
                    !.isMobileFullscreen = FALSE,
                    !.containerStyled = FALSE]
       IN IF native
          THEN IF s.fullscreenApi = "standard"
               THEN IF s.fullscreenElement
                    THEN AddTask(s1, AsyncTask("mobileExit", NoClosure))
                    ELSE s1
               ELSE restoreScrolling(
                      [s1 EXCEPT !.isNativeFullscreen = FALSE])
          ELSE restoreScrolling(s1)

\* enterFullscreen of the desktop path (lines 745-777), up to its await.
enterFullscreen(s) ==
  IF ~HasContainer(s)
  THEN s
  ELSE IF s.fullscreenApi = "standard"
       THEN AddTask(s, AsyncTask("enterFs", NoClosure))
       ELSE LET s1 == [s EXCEPT !.isFullscreen = TRUE]
            IN IF s.orientationApi
               THEN AddTask(s1, AsyncTask("enterFsLock", NoClosure))
               ELSE s1

\* exitFullscreen that never calls document.exitFullscreen().
exitFullscreenStaysNative(s) == [s EXCEPT !.isFullscreen = FALSE]

\* exitFullscreen of the desktop path (lines 779-806), up to its await:
\* with no fullscreen element document.exitFullscreen() rejects at once and
\* the catch clause runs.
exitFullscreen(s) ==
  IF s.fullscreenApi = "standard"
  THEN IF s.fullscreenElement
       THEN AddTask(s, AsyncTask("exitFs", NoClosure))
       ELSE [s EXCEPT !.isFullscreen = FALSE]
  ELSE unlockOrientation([s EXCEPT !.isFullscreen = FALSE])

\* toggleFullscreen (lines 809-827).
toggleFullscreen(s) ==
  LET isCurrentlyFullscreen == s.isFullscreen \/ s.isMobileFullscreen
      s1 == IF isCurrentlyFullscreen
            THEN IF s.mobileDevice
                 THEN exitMobileFullscreen(s, s.isNativeFullscreen)
                 ELSE exitFullscreen(s)
            ELSE IF s.mobileDevice
                 THEN enterMobileFullscreen(s)
                 ELSE enterFullscreen(s)
  IN [s1 EXCEPT
        !.isFullscreen = ~isCurrentlyFullscreen,
        !.fsSeq = CASE s.fsSeq = "unobserved" -> "unobserved"
                    [] ~isCurrentlyFullscreen -> "enter"
                    [] s.fsSeq = "enter" /\ ~HasEntryPending(s) -> "exit"
                    [] s.fsSeq = "enter" -> "exitWhilePending"
                    [] OTHER -> "other"]

\* handleFullscreenChange (lines 983-1014). The delayed callback keeps the
\* handleMouseMove of the render the listener was registered in.
handleFullscreenChange(s) ==
  LET isInFullscreen == s.fullscreenElement
      isInAnyFullscreen == isInFullscreen \/ s.isMobileFullscreen
      s1 == [s EXCEPT !.isNativeFullscreen = isInFullscreen,
                      !.isFullscreen = isInAnyFullscreen,
                      !.showControls = TRUE]
  IN IF ~isInAnyFullscreen
     THEN clearControlsTimeout(s1)
     ELSE IF s.isPlaying
          THEN [s1 EXCEPT !.timers =
                  @ \cup {Timer(FreshId(s1), "mouseMove",
                                [NoClosure EXCEPT
                                   !.isFullscreen = s.isFullscreen,
                                   !.isMobileFullscreen =
                                      s.isMobileFullscreen,
                                   !.isPlaying = s.isPlaying,
                                   !.isImage = Closure(s).isImage])}]
          ELSE s1

\* The browser leaves fullscreen: no fullscreen element any more, the
\* orientation lock is released, and fullscreenchange is queued.
DocumentExitFullscreen(s) ==
  IF s.fullscreenElement
  THEN [s EXCEPT !.fullscreenElement = FALSE, !.fsEvents = @ + 1,
                 !.orientationLocked = FALSE]
  ELSE s

(***************************************************************************)
(* Closing (lines 830-853) and the host (part_006 lines 415-418, 746).     *)
(***************************************************************************)
Called(s, cb, item) ==
  [s EXCEPT !.calls = Append(@, [cb |-> cb, item |-> item])]

\* onClose={() => setIsPlayerOpen(false)}
onClose(s) == [Called(s, "onClose", 0) EXCEPT !.isOpen = FALSE]

\* handleItemClick up to its await: setSelectedMedia(item);
\* setIsPlayerOpen(true). A catalogue item keeps its identity; an episode
\* object built by the player is a new object every time.
handleItemClick(s, item, newObject) ==
  [s EXCEPT !.mediaChanged = @ \/ newObject \/ s.media # item,
            !.media = item, !.isOpen = TRUE]

\* handleItemClick when its getVideoInfo request is going to answer: the
\* request is made for a video, whose duration is 'Unknown' in the
\* catalogue (part_006:344, 432-434).
handleItemClickAwaiting(s, item) ==
  IF TypeOf(item) = "video"
  THEN AddTask(handleItemClick(s, item, FALSE), Task("videoInfo", NoClosure, item))
  ELSE handleItemClick(s, item, FALSE)

\* A continuation that sets the enhanced copy whatever is selected.
handleItemClickResumedUnguarded(s, item) ==
  [s EXCEPT !.media = EnhancedItem(item), !.mediaChanged = TRUE]

\* The rest of handleItemClick once getVideoInfo(item.id) has answered with
\* success (part_006:435-444): setSelectedMedia(current =>
\* current?.id === item.id ? enhancedItem : current).
handleItemClickResumed(s, item) ==
  IF s.media # 0 /\ IdOf(s.media) = item
  THEN [s EXCEPT !.media = EnhancedItem(item), !.mediaChanged = TRUE]
  ELSE s

\* onRecommendedSelect={handleRecommendedSelect}
onRecommendedSelect(s, item, newObject) ==
  handleItemClick(Called(s, "onRecommendedSelect", item), item, newObject)

\* handleClose that notifies the host a second time after the teardown.
handleCloseNotifiesTwice(s) ==
  LET s1 == IF HasMediaElement(s)
            THEN [EndRun(ElementPause(s)) EXCEPT !.isPlaying = FALSE]
            ELSE s
  IN onClose(onClose(clearControlsTimeout(s1)))

handleClose(s) ==
  LET s1 == IF HasMediaElement(s)
            THEN [EndRun(ElementPause(s)) EXCEPT !.isPlaying = FALSE]
            ELSE s
      s2 == clearControlsTimeout(s1)
      s3 == IF s.isFullscreen \/ s.isMobileFullscreen
            THEN [(IF s.mobileDevice
                   THEN exitMobileFullscreen(s2, s.isNativeFullscreen)
                   ELSE exitFullscreen(s2))
                  EXCEPT !.isFullscreen = FALSE]
            ELSE s2
  IN onClose(s3)

(***************************************************************************)
(* Episode navigation (lines 542-622) and media events (lines 1059-1120).  *)
(***************************************************************************)
\* fetchEpisodeData up to its first await (lines 542-551).
fetchEpisodeData(s) ==
  IF s.media = 0 \/ TypeOf(s.media) # "video"
  THEN s
  ELSE AddTask([s EXCEPT !.episodeLoading = TRUE],
               Task("fetch", NoClosure, s.media))

\* setEpisodeList / setCurrentEpisodeIndex of lines 565-568, for the series
\* of item m.
setSeries(s, m) ==
  [s EXCEPT !.episodeList = DirSeries(m),
            !.currentEpisodeIndex = FindCurrent(DirSeries(m), IdOf(m))]

\* The end of fetchEpisodeData for item m, once the three responses are in
\* (lines 562-573): nextOk, prevOk, seriesOk are the success flags of the
\* three answers.
fetchEpisodeDataApply(s, m, nextOk, prevOk, seriesOk) ==
  [(IF seriesOk THEN setSeries(s, m) ELSE s) EXCEPT
     !.nextEpisode = IF nextOk THEN DirNext(m) ELSE 0,
     !.previousEpisode = IF prevOk THEN DirPrevious(m) ELSE 0,
     !.episodeLoading = FALSE]

\* A catch clause that keeps what a request had already answered for item m.
fetchEpisodeDataCatchKeepsNext(s, m) ==
  [s EXCEPT !.nextEpisode = DirNext(m), !.episodeLoading = FALSE]

\* The end of fetchEpisodeData for item m when one of its requests, or the
\* json() of a response, throws (lines 569-573): the error is logged and
\* the loading flag reset.
fetchEpisodeDataCatch(s, m) == [s EXCEPT !.episodeLoading = FALSE]

\* playNextEpisode as created in a render whose nextEpisode was c.nextEpisode.
playNextEpisode(s, c) ==
  IF c.nextEpisode # 0
  THEN [onRecommendedSelect(s, c.nextEpisode, TRUE) EXCEPT
          !.showNextEpisode = FALSE]
  ELSE s

playPreviousEpisode(s) ==
  IF s.previousEpisode # 0
  THEN onRecommendedSelect(s, s.previousEpisode, TRUE)
  ELSE s

playEpisodeFromList(s, episode) == onRecommendedSelect(s, episode, TRUE)

\* handleEnded without the setTimeout of lines 1081-1083.
handleEndedNoCountdown(s) ==
  IF s.autoplayNext /\ s.nextEpisode # 0
  THEN clearControlsTimeout(
         [s EXCEPT !.isPlaying = FALSE, !.showControls = TRUE,
                   !.showNextEpisode = TRUE])
  ELSE clearControlsTimeout(
         [s EXCEPT !.isPlaying = FALSE, !.showControls = TRUE,
                   !.showRecommendations = Recommended(s) # {}])

\* An "ended" listener that starts the countdown whenever there is a next
\* episode, autoplay or not.
handleEndedIgnoresAutoplay(s) ==
  LET s1 == clearControlsTimeout(
              [s EXCEPT !.isPlaying = FALSE, !.showControls = TRUE])
  IN IF s.nextEpisode # 0
     THEN [s1 EXCEPT
             !.showNextEpisode = TRUE,
             !.timers = @ \cup {Timer(FreshId(s1), "countdown",
                                      [NoClosure EXCEPT !.nextEpisode =
                                                           s.nextEpisode])}]
     ELSE IF Recommended(s) # {}
          THEN [s1 EXCEPT !.showRecommendations = TRUE]
          ELSE s1

handleEnded(s) ==
  LET s1 == clearControlsTimeout(
              [s EXCEPT !.isPlaying = FALSE, !.showControls = TRUE])
  IN IF s.autoplayNext /\ s.nextEpisode # 0
     THEN [s1 EXCEPT
             !.showNextEpisode = TRUE,
             !.timers = @ \cup {Timer(FreshId(s1), "countdown",
                                      [NoClosure EXCEPT !.nextEpisode =
                                                           s.nextEpisode])}]
     ELSE IF Recommended(s) # {}
          THEN [s1 EXCEPT !.showRecommendations = TRUE]
          ELSE s1

handlePlay(s) ==
  [s EXCEPT !.isPlaying = TRUE, !.isBuffering = FALSE, !.showControls = TRUE]

handlePause(s) ==
  clearControlsTimeout([s EXCEPT !.isPlaying = FALSE, !.showControls = TRUE])

\* A 'waiting' listener that also takes the player out of playing.
handleWaitingPauses(s) ==
  clearControlsTimeout([s EXCEPT !.isBuffering = TRUE, !.isPlaying = FALSE,
                                 !.showControls = TRUE])

handleWaiting(s) == [s EXCEPT !.isBuffering = TRUE]

handleCanPlay(s) == [s EXCEPT !.isBuffering = FALSE]

handleError(s) ==
  [s EXCEPT !.isBuffering = FALSE, !.isPlaying = FALSE, !.showControls = TRUE]

(***************************************************************************)
(* Volume and playback rate.                                               *)
(***************************************************************************)
\* Volume and playback rate. Volumes are whole percents (the state holds
\* 0..100, the element holds volume / 100); rates are in hundredths.
Min(a, b) == IF a < b THEN a ELSE b
Max(a, b) == IF a > b THEN a ELSE b

\* toggleMute (lines 908-915).
toggleMute(s) ==
  IF ~HasMediaElement(s)
  THEN s
  ELSE [s EXCEPT !.elMuted = ~s.isMuted, !.isMuted = ~s.isMuted]

\* adjustVolume without the Math.max / Math.min of line 921.
adjustVolumeUnclamped(s, delta) ==
  IF ~HasMediaElement(s)
  THEN s
  ELSE [s EXCEPT !.volume = s.volume + delta,
                 !.elVolume = s.volume + delta,
                 !.isMuted = FALSE, !.elMuted = FALSE]

\* adjustVolume (lines 917-926).
adjustVolume(s, delta) ==
  IF ~HasMediaElement(s)
  THEN s
  ELSE [s EXCEPT !.volume = Max(0, Min(100, s.volume + delta)),
                 !.elVolume = Max(0, Min(100, s.volume + delta)),
                 !.isMuted = FALSE, !.elMuted = FALSE]

\* What <input type="range" min="0" max="100"> reports when the thumb is
\* dragged to position p of its track: the value is kept within min..max.
RangeValue(p) == Max(0, Min(100, p))

\* onChange of the volume sliders (lines 1515-1526 and 1608-1619).
volumeSliderChange(s, newVolume) ==
  IF ~HasMediaElement(s)
  THEN [s EXCEPT !.volume = newVolume]
  ELSE [s EXCEPT !.volume = newVolume, !.elVolume = newVolume,
                 !.isMuted = IF newVolume > 0 THEN FALSE ELSE @,
                 !.elMuted = IF newVolume > 0 THEN FALSE ELSE @]

\* handleVolumeChange of the later revision (lines 2248-2259): a click on
\* the volume bar at percent of its width.
handleVolumeChange(s, percent) ==
  IF ~HasMediaElement(s)
  THEN s
  ELSE [s EXCEPT !.volume = Max(0, Min(100, percent)),
                 !.elVolume = Max(0, Min(100, percent)),
                 !.isMuted = FALSE, !.elMuted = FALSE]

\* The options of the speed select (lines 1588-1593).
SpeedOptions == {50, 75, 100, 125, 150, 200}

\* onChange of the speed select (line 1585).
speedSelectChange(s, rate) == [s EXCEPT !.playbackRate = rate]

\* changePlaybackRate without the clamp of line 2265.
changePlaybackRateUnclamped(s, rate) ==
  IF ~HasMediaElement(s)
  THEN s
  ELSE [s EXCEPT !.playbackRate = rate, !.elRate = rate]

\* changePlaybackRate of the later revision of the player (lines 2261-2268).
changePlaybackRate(s, rate) ==
  IF ~HasMediaElement(s)
  THEN s
  ELSE [s EXCEPT !.playbackRate = Max(25, Min(200, rate)),
                 !.elRate = Max(25, Min(200, rate))]

(***************************************************************************)
(* Position (lines 928-935, 1059-1066, 1422-1431). Times are in seconds.   *)
(***************************************************************************)
\* mediaElement.currentTime = t: the element seeks to t, kept within what
\* it can play.
ElementSeek(s, t) == [s EXCEPT !.elTime = Max(0, Min(s.elDuration, t))]

handleLoadedMetadata(s) ==
  [s EXCEPT !.duration = s.elDuration, !.isBuffering = FALSE]

handleTimeUpdate(s) == [s EXCEPT !.currentTime = s.elTime]

\* skipTime without the Math.max / Math.min of line 932.
skipTimeUnclamped(s, seconds) ==
  IF ~HasMediaElement(s) \/ s.duration = 0
  THEN s
  ELSE [ElementSeek(s, s.currentTime + seconds) EXCEPT
          !.currentTime = s.currentTime + seconds]

\* skipTime (lines 928-935).
skipTime(s, seconds) ==
  IF ~HasMediaElement(s) \/ s.duration = 0
  THEN s
  ELSE LET newTime == Max(0, Min(s.duration, s.currentTime + seconds))
       IN [ElementSeek(s, newTime) EXCEPT !.currentTime = newTime]

\* onClick of the progress bar (lines 1422-1431): newTime is
\* percent * duration for the place of the click on the bar.
progressBarClick(s, newTime) ==
  IF HasMediaElement(s) /\ s.duration # 0
  THEN [ElementSeek(s, newTime) EXCEPT !.currentTime = newTime]
  ELSE s

(***************************************************************************)
(* The effects of the component, run after a render in which one of their  *)
(* dependencies changed.                                                   *)
(***************************************************************************)
\* "Initialize media when opened" (lines 943-979). When the player is closed
\* the component renders nothing, so there is no element to pause.
openEffect(s) ==
  IF s.isOpen /\ s.media # 0
  THEN LET s1 == clearControlsTimeout(
                   [s EXCEPT !.isPlaying = FALSE, !.currentTime = 0,
                             !.duration = 0, !.showControls = TRUE,
                             !.showNextEpisode = FALSE,
                             !.showRecommendations = FALSE])
       IN IF HasMediaElement(s1) THEN EndRun(ElementLoad(s1)) ELSE s1
  ELSE LET s1 == IF HasMediaElement(s)
                 THEN [EndRun(ElementPause(s)) EXCEPT !.isPlaying = FALSE]
                 ELSE s
       IN clearControlsTimeout(s1)

\* "Set volume and playback rate" (lines 1148-1154).
volumeEffect(s) ==
  IF HasMediaElement(s)
  THEN [s EXCEPT !.elVolume = IF s.isMuted THEN 0 ELSE s.volume,
                 !.elRate = s.playbackRate]
  ELSE s

\* The cleanup of the "Cleanup on component unmount" effect
\* (lines 1239-1253), as created in the render r: React runs it whenever
\* isMobileFullscreen or exitMobileFullscreen (that is, isNativeFullscreen)
\* changed, and at unmount.
unmountCleanup(s, r) ==
  LET s1 == IF r.isMobileFullscreen
            THEN exitMobileFullscreen(s, r.isNativeFullscreen)
            ELSE s
  IN clearTimeout(restoreScrolling(s1), s1.controlsTimeoutRef)

\* What the browser does when the rendered elements change between the
\* render r and the render s: a media element that left the page is gone
\* with its queued events, a new one is fresh; when the container leaves
\* the page, fullscreen ends and pending continuations hold a dead element.
commitDom(r, s) ==
  LET s1 == IF HasMediaElement(r) # HasMediaElement(s)
               \/ (HasMediaElement(s) /\ MediaType(r) # MediaType(s))
            THEN EndRun(ElementFresh(s))
            ELSE s
  IN IF HasContainer(r) /\ ~HasContainer(s)
     THEN [DocumentExitFullscreen(s1) EXCEPT
             !.containerStyled = FALSE,
             !.tasks = [i \in 1..Len(s1.tasks) |->
                          [s1.tasks[i] EXCEPT !.live = FALSE]]]
     ELSE s1

\* One render: r is the state rendered before, s the state to render, x
\* the state the earlier effects of this render left. Effects run in the
\* order the component declares them, each only when one of its
\* dependencies differs between the two renders.
cleanupStage(r, s, x) ==
  IF r.isMobileFullscreen # s.isMobileFullscreen
     \/ r.isNativeFullscreen # s.isNativeFullscreen
  THEN unmountCleanup(x, r)
  ELSE x

fetchStage(s, x) == IF s.mediaChanged THEN fetchEpisodeData(x) ELSE x

openStage(r, s, x) ==
  IF s.mediaChanged \/ r.isOpen # s.isOpen THEN openEffect(x) ELSE x

volumeStage(r, s, x) ==
  IF r.volume # s.volume \/ r.isMuted # s.isMuted
     \/ r.playbackRate # s.playbackRate \/ MediaType(r) # MediaType(s)
  THEN volumeEffect(x)
  ELSE x

Rendered(s) == [s EXCEPT !.mediaChanged = FALSE, !.unlockThrows = FALSE]

RenderOnce(r, s) ==
  Rendered(volumeStage(r, s,
             openStage(r, s,
               fetchStage(s,
                 cleanupStage(r, s, commitDom(r, s))))))

\* Renders until no effect changes the state any more.
RECURSIVE Render(_, _)
RenderAgain(s, n) == IF n = Rendered(s) THEN n ELSE Render(Rendered(s), n)
Render(r, s) == RenderAgain(s, RenderOnce(r, s))

(***************************************************************************)
(* Actions. Step runs a handler's result through the renders it causes.    *)
(***************************************************************************)
WithinLimits(s, countdowns) ==
  /\ Cardinality({i \in 1..Len(s.tasks) : s.tasks[i].kind = "play"})
       <= MaxPlays
  /\ Cardinality({i \in 1..Len(s.tasks) : s.tasks[i].kind \in FullscreenKinds})
       <= MaxFsTasks
  /\ Cardinality({i \in 1..Len(s.tasks) : s.tasks[i].kind = "fetch"})
       <= MaxFetches
  /\ Cardinality({i \in 1..Len(s.tasks) : s.tasks[i].kind = "videoInfo"})
       <= MaxVideoInfo
  /\ Cardinality(TimersOf(s, "mouseMove")) <= MaxDelayed
  /\ Cardinality(TimersOf(s, "countdown")) <= countdowns
  /\ Len(s.mediaEvents) <= MaxMediaEvents
  /\ s.fsEvents <= MaxFsEvents
  /\ s.toggleRun.n <= MaxToggles

WithinBounds(s) == WithinLimits(s, MaxCountdowns)

Bounded(op, n) == WithinBounds(n) /\ Commit(op, n)

Step(op, s) == Bounded(op, Render(S, s))

WithoutTask(s, i) == [s EXCEPT !.tasks = RemoveAt(@, i)]
WithoutTimer(s, t) == [s EXCEPT !.timers = @ \ {t}]

\* ---- pointer ----
MouseMove ==
  /\ HasContainer(S)
  /\ Step("handleMouseMove", handleMouseMove(S, Closure(S)))

\* onMouseLeave={() => setShowControls(true)} (line 1279)
MouseLeave ==
  /\ HasContainer(S)
  /\ ~showControls
  /\ Step("mouseLeave", [S EXCEPT !.showControls = TRUE])

\* The click layer over hidden controls (lines 1760-1764).
ClickToShowControls ==
  /\ HasContainer(S)
  /\ ~showControls
  /\ Step("clickToShow", [S EXCEPT !.showControls = ~showControls])

HideTimerExpires ==
  \E t \in TimersOf(S, "hide") :
    Step("hideTimer", [WithoutTimer(S, t) EXCEPT !.showControls = FALSE])

MouseMoveTimerExpires ==
  \E t \in TimersOf(S, "mouseMove") :
    Step("mouseMoveTimer", handleMouseMove(WithoutTimer(S, t), t.c))

\* ---- play / pause ----
TogglePlayPause ==
  /\ isOpen
  /\ HasMediaElement(S)
  /\ Step("togglePlayPause",
          [togglePlayPause(S, Closure(S)) EXCEPT
             !.toggleRun =
                IF toggleRun = NotCounted
                THEN NotCounted
                ELSE [n |-> toggleRun.n + 1,
                      startPaused |-> IF toggleRun.n = 0
                                      THEN elPaused
                                      ELSE toggleRun.startPaused]])

\* play() resolves once playback has started: the element queued "play"
\* when play() was called, so that event is delivered first.
PlayResolves ==
  \E i \in 1..Len(tasks) :
    /\ tasks[i].kind = "play"
    /\ tasks[i].live
    /\ mediaEvents = <<>>
    /\ Step("playResolved",
            togglePlayPauseResumed(WithoutTask(S, i), tasks[i].c))

\* The catch clause of togglePlayPause (line 903).
PlayRejects ==
  \E i \in 1..Len(tasks) :
    /\ tasks[i].kind = "play"
    /\ Step("playRejected", WithoutTask(S, i))

\* The element delivers the event a play() or pause() call queued.
DeliverMediaEvent ==
  /\ HasMediaElement(S)
  /\ mediaEvents # <<>>
  /\ LET s == EndRun([S EXCEPT !.mediaEvents = Tail(@)])
     IN IF Head(mediaEvents) = "play"
        THEN Step("handlePlay", handlePlay(s))
        ELSE Step("handlePause", handlePause(s))

\* Playback reaches the end. The HTML standard has the element set paused
\* and fire "pause" before "ended" in the same task; engines that keep the
\* older behaviour fire "ended" alone.
\* The listeners run when the media reaches its end: the element may pause
\* itself first (setsPaused) and deliver "pause" before "ended".
EndedFrom(s, setsPaused) ==
  IF setsPaused
  THEN handleEnded(handlePause(
         RejectPlays(EndRun([s EXCEPT !.elPaused = TRUE]))))
  ELSE handleEnded(EndRun(s))

EngineEnded ==
  /\ HasMediaElement(S)
  /\ ~elPaused
  /\ mediaEvents = <<>>
  /\ \E setsPaused \in BOOLEAN :
       Step("handleEnded", EndedFrom(S, setsPaused))

\* "ended" is delivered again while a countdown is pending (the media was
\* played again, or sought back, and reached its end within the 5 s): the
\* same listener, with room for the countdown it starts.
EngineEndedAgain ==
  /\ HasMediaElement(S)
  /\ ~elPaused
  /\ mediaEvents = <<>>
  /\ TimersOf(S, "countdown") # {}
  /\ \E setsPaused \in BOOLEAN :
       /\ WithinLimits(Render(S, EndedFrom(S, setsPaused)), MaxEndedAgain)
       /\ Commit("handleEndedAgain", Render(S, EndedFrom(S, setsPaused)))

EngineError ==
  /\ HasMediaElement(S)
  /\ mediaEvents = <<>>
  /\ Step("handleError", handleError(EndRun(S)))

EngineWaiting ==
  /\ HasMediaElement(S)
  /\ mediaEvents = <<>>
  /\ ~isBuffering
  /\ Step("handleWaiting", handleWaiting(EndRun(S)))

EngineCanPlay ==
  /\ HasMediaElement(S)
  /\ mediaEvents = <<>>
  /\ isBuffering
  /\ Step("handleCanPlay", handleCanPlay(EndRun(S)))

\* ---- fullscreen ----
\* The state a handler starts from when the device makes
\* screen.orientation.unlock() throw (throws) or not during the handler.
UnlockThrowing(throws) == [S EXCEPT !.unlockThrows = throws]

\* Key F, the fullscreen button, a double click on the video.
\* ---- keyboard ----
\* The keys of the keydown listener, one key it does not handle, and the tag
\* names of the elements that can hold the focus.
KeyCodes ==
  {"Space", "KeyF", "KeyM", "ArrowLeft", "ArrowRight", "ArrowUp",
   "ArrowDown", "KeyN", "KeyP", "KeyL", "Escape", "KeyA"}

TagNames == {"BODY", "INPUT", "TEXTAREA"}

\* The keydown listener without the test of the event's target.
handleKeyDownAnyTarget(s, code, shiftKey, tagName) ==
  CASE code = "Space" -> togglePlayPause(s, Closure(s))
    [] code = "KeyF" -> toggleFullscreen(s)
    [] code = "KeyM" -> toggleMute(s)
    [] code = "ArrowLeft" ->
         IF shiftKey /\ s.previousEpisode # 0
         THEN playPreviousEpisode(s)
         ELSE skipTime(s, -SkipSeconds)
    [] code = "ArrowRight" ->
         IF shiftKey /\ s.nextEpisode # 0
         THEN playNextEpisode(s, Closure(s))
         ELSE skipTime(s, SkipSeconds)
    [] code = "ArrowUp" -> adjustVolume(s, VolumeStep)
    [] code = "ArrowDown" -> adjustVolume(s, -VolumeStep)
    [] code = "KeyN" ->
         IF s.nextEpisode # 0 THEN playNextEpisode(s, Closure(s)) ELSE s
    [] code = "KeyP" ->
         IF s.previousEpisode # 0 THEN playPreviousEpisode(s) ELSE s
    [] code = "Escape" ->
         IF s.isFullscreen \/ s.isMobileFullscreen
         THEN toggleFullscreen(s)
         ELSE handleClose(s)
    [] OTHER -> s

\* handleKeyDown of the keydown listener on the document (1160-1227):
\* nothing when the event's target is an INPUT or a TEXTAREA, else the
\* handler of the key. KeyL only opens the episode list panel, which is
\* not part of the state.
handleKeyDown(s, code, shiftKey, tagName) ==
  IF tagName = "INPUT" \/ tagName = "TEXTAREA"
  THEN s
  ELSE CASE code = "Space" -> togglePlayPause(s, Closure(s))
         [] code = "KeyF" -> toggleFullscreen(s)
         [] code = "KeyM" -> toggleMute(s)
         [] code = "ArrowLeft" ->
              IF shiftKey /\ s.previousEpisode # 0
              THEN playPreviousEpisode(s)
              ELSE skipTime(s, -SkipSeconds)
         [] code = "ArrowRight" ->
              IF shiftKey /\ s.nextEpisode # 0
              THEN playNextEpisode(s, Closure(s))
              ELSE skipTime(s, SkipSeconds)
         [] code = "ArrowUp" -> adjustVolume(s, VolumeStep)
         [] code = "ArrowDown" -> adjustVolume(s, -VolumeStep)
         [] code = "KeyN" ->
              IF s.nextEpisode # 0 THEN playNextEpisode(s, Closure(s)) ELSE s
         [] code = "KeyP" ->
              IF s.previousEpisode # 0 THEN playPreviousEpisode(s) ELSE s
         [] code = "Escape" ->
              IF s.isFullscreen \/ s.isMobileFullscreen
              THEN toggleFullscreen(s)
              ELSE handleClose(s)
         [] OTHER -> s

\* The run of toggles as a key changes it: Space that reaches
\* togglePlayPause extends it, a skip ends it.
KeyRun(s, code, tagName) ==
  IF tagName \in {"INPUT", "TEXTAREA"}
  THEN s
  ELSE IF code = "Space" /\ HasMediaElement(s) /\ s.toggleRun # NotCounted
       THEN [s EXCEPT !.toggleRun =
                        [n |-> @.n + 1,
                         startPaused |-> IF @.n = 0 THEN s.elPaused
                                                    ELSE @.startPaused]]
       ELSE IF code \in {"ArrowLeft", "ArrowRight"} THEN EndRun(s) ELSE s

\* A key is pressed while the player is open; the listener exists only then
\* (line 1158).
KeyDown ==
  /\ isOpen
  /\ HasContainer(S)
  /\ \E code \in KeyCodes, shiftKey \in BOOLEAN, tagName \in TagNames,
        throws \in (IF orientationApi THEN BOOLEAN ELSE {FALSE}) :
       Step(IF tagName \in {"INPUT", "TEXTAREA"} THEN "keyInText"
                                                  ELSE "keyDown",
            handleKeyDown(KeyRun(UnlockThrowing(throws), code, tagName),
                          code, shiftKey, tagName))

ToggleFullscreen ==
  /\ isOpen
  /\ HasContainer(S)
  /\ \E throws \in BOOLEAN :
       Step("toggleFullscreen", toggleFullscreen(UnlockThrowing(throws)))

\* Key Escape that closes whatever the fullscreen state is.
KeyEscapeAlwaysCloses ==
  /\ isOpen
  /\ HasContainer(S)
  /\ Step("escapeClose", handleClose(S))

\* Key Escape (lines 1219-1226).
KeyEscape ==
  /\ isOpen
  /\ HasContainer(S)
  /\ IF isFullscreen \/ isMobileFullscreen
     THEN \E throws \in BOOLEAN :
            Step("escapeFullscreen", toggleFullscreen(UnlockThrowing(throws)))
     ELSE Step("escapeClose", handleClose(S))

\* The user leaves native fullscreen with the browser's own gesture.
BrowserExitsFullscreen ==
  /\ fullscreenElement
  /\ Step("browserExit", DocumentExitFullscreen(S))

DeliverFullscreenChange ==
  /\ fsEvents > 0
  /\ Step("handleFullscreenChange",
          handleFullscreenChange([S EXCEPT !.fsEvents = @ - 1]))

\* requestFullscreen() settles: the element becomes the fullscreen element
\* and fullscreenchange is queued, or the request is refused.
EnterFsSettles ==
  \E i \in 1..Len(tasks) : \E ok \in BOOLEAN :
    /\ tasks[i].kind = "enterFs"
    /\ ok => tasks[i].live
    /\ Step("enterFsSettled",
            IF ok
            THEN [WithoutTask(S, i) EXCEPT !.fullscreenElement = TRUE,
                                           !.fsEvents = @ + 1]
            ELSE [WithoutTask(S, i) EXCEPT !.isFullscreen = TRUE])

EnterFsLockSettles ==
  \E i \in 1..Len(tasks) : \E ok \in BOOLEAN :
    /\ tasks[i].kind = "enterFsLock"
    /\ Step("enterFsLockSettled",
            [WithoutTask(S, i) EXCEPT !.orientationLocked = @ \/ ok])

ExitFsSettles ==
  \E i \in 1..Len(tasks) :
    /\ tasks[i].kind = "exitFs"
    /\ Step("exitFsSettled", DocumentExitFullscreen(WithoutTask(S, i)))

MobileLockSettles ==
  \E i \in 1..Len(tasks) : \E ok \in BOOLEAN :
    /\ tasks[i].kind = "mobileLock"
    /\ Step("mobileLockSettled",
            enterMobileFullscreenStyled(
              [WithoutTask(S, i) EXCEPT !.orientationLocked = @ \/ ok],
              tasks[i].live))

\* Lines 659-681 after the await.
MobileRequestSettles ==
  \E i \in 1..Len(tasks) : \E ok \in BOOLEAN :
    /\ tasks[i].kind = "mobileRequest"
    /\ ok => tasks[i].live
    /\ Step("mobileRequestSettled",
            IF ok
            THEN [WithoutTask(S, i) EXCEPT !.fullscreenElement = TRUE,
                                           !.fsEvents = @ + 1,
                                           !.isNativeFullscreen = TRUE,
                                           !.bodyOverflowHidden = TRUE]
            ELSE [WithoutTask(S, i) EXCEPT !.bodyOverflowHidden = TRUE])

\* Lines 727-737 after the await.
MobileExitSettles ==
  \E i \in 1..Len(tasks) :
    /\ tasks[i].kind = "mobileExit"
    /\ Step("mobileExitSettled",
            restoreScrolling(
              [DocumentExitFullscreen(WithoutTask(S, i)) EXCEPT
                 !.isNativeFullscreen = FALSE]))

\* ---- session ----
\* The close buttons: the one of the windowed player (line 1768), the one
\* of the top bar shown in fullscreen (line 1363).
CloseButton ==
  /\ HasContainer(S)
  /\ (isFullscreen \/ isMobileFullscreen) => showControls
  /\ \E throws \in BOOLEAN :
       Step("handleClose", handleClose(UnlockThrowing(throws)))

\* handleClose called as a function, whether a session is active or not.
CloseCommand == Step("handleClose", handleClose(S))

\* The host closes the player by itself: it hands isOpen = false to the
\* component without the component having called onClose.
HostCloses ==
  /\ isOpen
  /\ Step("hostCloses", [S EXCEPT !.isOpen = FALSE])

\* An item of the gallery is clicked; the player covers the page while open.
\* A click in the gallery whose getVideoInfo request, if one is made, fails
\* or answers without success: handleItemClick changes nothing more then
\* (part_006:432-449).
HostItemClick ==
  /\ ~isOpen
  /\ \E item \in galleryItems :
       Step("handleItemClick", handleItemClick(S, item, FALSE))

\* Key N, Shift+Right, the next button, "Play Now".
PlayNext ==
  /\ isOpen
  /\ HasContainer(S)
  /\ nextEpisode # 0
  /\ Step("playNextEpisode", playNextEpisode(S, Closure(S)))

PlayPrevious ==
  /\ isOpen
  /\ HasContainer(S)
  /\ previousEpisode # 0
  /\ Step("playPreviousEpisode", playPreviousEpisode(S))

PlayFromList ==
  /\ HasContainer(S)
  /\ \E k \in 1..Len(episodeList) :
       Step("playEpisodeFromList", playEpisodeFromList(S, episodeList[k]))

\* A tile of the recommendations overlay (lines 1741-1744).
\* A click in the gallery whose getVideoInfo request stays in flight.
HostItemClickAwaiting ==
  /\ ~isOpen
  /\ \E item \in galleryItems :
       Step("handleItemClick", handleItemClickAwaiting(S, item))

\* getVideoInfo answers with success and handleItemClick goes on.
VideoInfoSettles ==
  \E i \in 1..Len(tasks) :
    /\ tasks[i].kind = "videoInfo"
    /\ Step("videoInfo", handleItemClickResumed(WithoutTask(S, i), tasks[i].m))

RecommendedSelect ==
  /\ HasContainer(S)
  /\ showRecommendations
  /\ \E item \in Recommended(S) :
       Step("recommendedSelect",
            onRecommendedSelect([S EXCEPT !.showRecommendations = FALSE],
                                item, FALSE))

CloseRecommendations ==
  /\ HasContainer(S)
  /\ showRecommendations
  /\ Step("closeRecommendations", [S EXCEPT !.showRecommendations = FALSE])

\* "Cancel" of the next-episode overlay (line 1707).
CancelNextEpisode ==
  /\ HasContainer(S)
  /\ showNextEpisode
  /\ nextEpisode # 0
  /\ Step("cancelNextEpisode", [S EXCEPT !.showNextEpisode = FALSE])

\* The autoplay switch of the settings panel (lines 1619-1634).
ToggleAutoplay ==
  /\ HasContainer(S)
  /\ nextEpisode # 0 \/ Len(episodeList) > 1
  /\ Step("toggleAutoplay", [S EXCEPT !.autoplayNext = ~autoplayNext])

CountdownExpires ==
  \E t \in TimersOf(S, "countdown") :
    Step("countdown", playNextEpisode(WithoutTimer(S, t), t.c))

\* The last of the three requests of a fetchEpisodeData call is answered;
\* each answer says success: true or success: false.
FetchAnswers(i, nextOk, prevOk, seriesOk) ==
  /\ tasks[i].kind = "fetch"
  /\ Step("fetchApplied",
          fetchEpisodeDataApply(WithoutTask(S, i), tasks[i].m,
                                nextOk, prevOk, seriesOk))

FetchResponds ==
  \E i \in 1..Len(tasks) : \E nextOk, prevOk, seriesOk \in BOOLEAN :
    FetchAnswers(i, nextOk, prevOk, seriesOk)

\* A request of a fetchEpisodeData call, or the json() of its response,
\* throws: the catch and finally clauses (lines 569-573).
FetchThrowsAs(op, i) ==
  /\ tasks[i].kind = "fetch"
  /\ Step(op, fetchEpisodeDataCatch(WithoutTask(S, i), tasks[i].m))

FetchThrowsAt(i) == FetchThrowsAs("fetchThrew", i)

FetchThrows == \E i \in 1..Len(tasks) : FetchThrowsAt(i)

\* The same step, kept as the last operation for the properties that follow
\* a throwing fetch.
FetchThrowsRecorded ==
  \E i \in 1..Len(tasks) : FetchThrowsAs("fetchThrewRecorded", i)

\* ---- volume and speed ----
\* Keys ArrowUp and ArrowDown (lines 1195-1202).
VolumeKey ==
  /\ isOpen
  /\ HasContainer(S)
  /\ \E delta \in {VolumeStep, -VolumeStep} :
       Step("adjustVolume", adjustVolume(S, delta))

\* Positions the thumb of a volume slider is dragged to, past both ends of
\* the track included.
SliderPositions == {-10, 0, 1, 38, 99, 100, 110}

VolumeSlider ==
  /\ HasContainer(S)
  /\ MediaType(S) # "image"
  /\ \E p \in SliderPositions :
       Step("volumeSlider", volumeSliderChange(S, RangeValue(p)))

VolumeBarClick ==
  /\ HasContainer(S)
  /\ \E p \in SliderPositions :
       Step("handleVolumeChange", handleVolumeChange(S, p))

\* Key M and the mute button.
ToggleMute ==
  /\ isOpen
  /\ HasContainer(S)
  /\ Step("toggleMute", toggleMute(S))

SpeedSelect ==
  /\ HasContainer(S)
  /\ MediaType(S) # "image"
  /\ \E rate \in SpeedOptions :
       Step("speedSelect", speedSelectChange(S, rate))

\* The rates a caller may hand to changePlaybackRate: the seven buttons of
\* the speed menu (line 2489) and values outside its range.
RequestedRates == {10, 25, 50, 75, 100, 125, 150, 200, 300}

ChangePlaybackRate ==
  /\ HasContainer(S)
  /\ \E rate \in RequestedRates :
       Step("changePlaybackRate", changePlaybackRate(S, rate))

\* ---- position ----
\* The element has read the file's metadata and fires "loadedmetadata".
EngineLoadedMetadata ==
  /\ HasMediaElement(S)
  /\ elDuration = 0
  /\ Step("handleLoadedMetadata",
          handleLoadedMetadata(EndRun([S EXCEPT !.elDuration = MediaDuration])))

\* A second of playback passes.
EngineTimeAdvances ==
  /\ HasMediaElement(S)
  /\ ~elPaused
  /\ elTime < elDuration
  /\ Step("timeAdvances", [S EXCEPT !.elTime = @ + 1])

\* The element fires "timeupdate"; the listener reads the position the
\* element has when it runs.
EngineTimeUpdate ==
  /\ HasMediaElement(S)
  /\ currentTime # elTime
  /\ Step("handleTimeUpdate", handleTimeUpdate(EndRun(S)))

\* Keys ArrowLeft and ArrowRight, the skip buttons (lines 1179-1194,
\* 1458, 1477).
Skip(op, seconds) ==
  /\ isOpen
  /\ HasContainer(S)
  /\ Step(op, skipTime(EndRun(S), seconds))

SkipKey == Skip("skipBack", -SkipSeconds) \/ Skip("skipForward", SkipSeconds)

ProgressBarClick ==
  /\ HasMediaElement(S)
  /\ \E newTime \in 0..duration :
       Step("progressBarClick", progressBarClick(EndRun(S), newTime))

(***************************************************************************)
(* Initial state: the page right after it mounted the component.           *)
(***************************************************************************)
InitOn(items, mobile, api, orientation, observed) ==
  /\ isOpen = FALSE /\ media = 0 /\ galleryItems = items
  /\ isPlaying = FALSE /\ isMuted = FALSE /\ currentTime = 0
  /\ duration = 0 /\ volume = InitialVolume /\ isFullscreen = FALSE
  /\ showControls = TRUE /\ showNextEpisode = FALSE
  /\ showRecommendations = FALSE /\ playbackRate = 100
  /\ isBuffering = FALSE /\ autoplayNext = TRUE
  /\ isNativeFullscreen = FALSE /\ isMobileFullscreen = FALSE
  /\ nextEpisode = 0 /\ previousEpisode = 0 /\ episodeList = <<>>
  /\ currentEpisodeIndex = -1 /\ episodeLoading = FALSE
  /\ controlsTimeoutRef = 0
  /\ timers = {} /\ tasks = <<>> /\ fullscreenElement = FALSE
  /\ fsEvents = 0 /\ bodyOverflowHidden = FALSE
  /\ orientationLocked = FALSE /\ containerStyled = FALSE
  /\ elPaused = TRUE /\ elVolume = 100 /\ elMuted = FALSE /\ elRate = 100
  /\ elTime = 0 /\ elDuration = 0 /\ mediaEvents = <<>>
  /\ mobileDevice = mobile /\ fullscreenApi = api
  /\ orientationApi = orientation
  /\ last = NoCalls
  /\ fsSeq = IF "fullscreen" \in observed THEN "none" ELSE "unobserved"
  /\ toggleRun = IF "toggles" \in observed THEN NoRun ELSE NotCounted

Init ==
  \E mobile \in BOOLEAN, api \in {"standard", "none"},
     orientation \in BOOLEAN :
    InitOn(Items, mobile, api, orientation, {"fullscreen", "toggles"})

Pointer ==
  \/ MouseMove \/ MouseLeave \/ ClickToShowControls
  \/ HideTimerExpires \/ MouseMoveTimerExpires

Playback ==
  \/ TogglePlayPause \/ PlayResolves \/ PlayRejects \/ DeliverMediaEvent
  \/ EngineEnded \/ EngineError

Buffering == EngineWaiting \/ EngineCanPlay

DesktopFullscreen ==
  \/ ToggleFullscreen \/ KeyEscape \/ BrowserExitsFullscreen
  \/ DeliverFullscreenChange \/ EnterFsSettles \/ EnterFsLockSettles
  \/ ExitFsSettles

MobileFullscreen ==
  MobileLockSettles \/ MobileRequestSettles \/ MobileExitSettles

Fullscreen == DesktopFullscreen \/ MobileFullscreen

Session == CloseButton \/ HostItemClick

Teardown == CloseCommand \/ HostCloses

Keyboard == KeyDown

Host == HostItemClickAwaiting \/ VideoInfoSettles

Episodes ==
  \/ PlayNext \/ PlayPrevious \/ PlayFromList \/ RecommendedSelect
  \/ CloseRecommendations \/ CancelNextEpisode \/ ToggleAutoplay
  \/ CountdownExpires \/ FetchResponds

Numeric ==
  \/ VolumeKey \/ VolumeSlider \/ VolumeBarClick \/ ToggleMute
  \/ SpeedSelect
  \/ ChangePlaybackRate

Position ==
  \/ EngineLoadedMetadata \/ EngineTimeAdvances \/ EngineTimeUpdate
  \/ SkipKey \/ ProgressBarClick

Next ==
  \/ Pointer \/ Playback \/ Buffering \/ Fullscreen \/ Session \/ Episodes
  \/ FetchThrows \/ Numeric \/ Position \/ Teardown \/ Keyboard
  \/ EngineEndedAgain \/ FetchThrowsRecorded \/ Host

Spec == Init /\ [][Next]_vars

\* Controls, playback and fullscreen of one video on desktop browsers with
\* and without the Fullscreen API, with the Episode Directory Service
\* unreachable.
InitControls ==
  \E api \in {"standard", "none"} : InitOn({1}, FALSE, api, TRUE, {})

NextControls ==
  \/ Pointer \/ Playback \/ DesktopFullscreen \/ Session \/ FetchThrows

SpecControls == InitControls /\ [][NextControls]_vars

\* Volume and speed of a video, an audio track and an image on a desktop.
InitNumeric == InitOn({1, 3, 4}, FALSE, "standard", TRUE, {})

NextNumeric == Numeric \/ Session \/ FetchThrows

SpecNumeric == InitNumeric /\ [][NextNumeric]_vars

\* Fullscreen of a video and an image that never play, on every kind of
\* device, observing the toggleFullscreen calls.
InitFullscreen ==
  \E mobile \in BOOLEAN, api \in {"standard", "none"},
     orientation \in BOOLEAN :
    InitOn({1, 4}, mobile, api, orientation, {"fullscreen"})

NextFullscreen == Fullscreen \/ Session \/ FetchThrows \/ MouseMove

SpecFullscreen == InitFullscreen /\ [][NextFullscreen]_vars

\* Playback of a video and an audio track on a desktop, counting the
\* togglePlayPause calls.
InitPlayback == InitOn({1, 3}, FALSE, "standard", TRUE, {"toggles"})

NextPlayback == Playback \/ Buffering \/ Session \/ FetchThrows

SpecPlayback == InitPlayback /\ [][NextPlayback]_vars

\* The two episodes of a series on a desktop, with the Episode Directory
\* Service answering.
InitEpisodes == InitOn({1, 2}, FALSE, "standard", TRUE, {})

NextEpisodes == Playback \/ Session \/ Episodes \/ FetchThrows

SpecEpisodes == InitEpisodes /\ [][NextEpisodes]_vars

\* The position of one video on a desktop while it plays and is paused.
InitPosition == InitOn({1}, FALSE, "standard", TRUE, {})

NextPosition ==
  \/ Position \/ TogglePlayPause \/ PlayResolves \/ PlayRejects
  \/ DeliverMediaEvent \/ Session \/ FetchThrows

SpecPosition == InitPosition /\ [][NextPosition]_vars

\* Playback of one video on a desktop, with handleClose called at any time.
\* Buffering with the controls' timer: one video on a desktop browser
\* without the Fullscreen API.
InitBuffering == InitOn({1}, FALSE, "none", FALSE, {})

NextBuffering ==
  \/ MouseMove \/ MouseLeave \/ ClickToShowControls \/ HideTimerExpires
  \/ Playback \/ Buffering \/ ToggleFullscreen \/ Session \/ FetchThrows

SpecBuffering == InitBuffering /\ [][NextBuffering]_vars

\* The keyboard: one video on a desktop browser without the Fullscreen API,
\* every change made by a key.
InitKeys == InitOn({1}, FALSE, "none", FALSE, {})

NextKeys ==
  \/ Keyboard \/ HostItemClick \/ PlayResolves \/ DeliverMediaEvent
  \/ FetchThrows

SpecKeys == InitKeys /\ [][NextKeys]_vars

\* Episodes with "ended" delivered twice: the navigation by keys and
\* buttons is left out.
NextCountdowns ==
  \/ TogglePlayPause \/ DeliverMediaEvent \/ EngineEnded
  \/ EngineEndedAgain \/ Session \/ FetchResponds \/ FetchThrows
  \/ CountdownExpires \/ ToggleAutoplay

SpecCountdowns == InitEpisodes /\ [][NextCountdowns]_vars

\* The episode directory alone: sessions are opened, closed and replaced
\* while the requests answer or throw.
NextDirectory ==
  \/ Session \/ PlayNext \/ PlayPrevious \/ FetchResponds
  \/ FetchThrowsRecorded

SpecDirectory == InitEpisodes /\ [][NextDirectory]_vars

\* The host's video-info requests: two videos, opened and closed while the
\* requests are in flight.
NextHost ==
  \/ Host \/ CloseButton \/ TogglePlayPause \/ DeliverMediaEvent
  \/ FetchThrows

SpecHost == InitEpisodes /\ [][NextHost]_vars

NextClose == Playback \/ Session \/ FetchThrows \/ CloseCommand

SpecClose == InitControls /\ [][NextClose]_vars

\* Fullscreen on every kind of device, with a host that may close the
\* player by itself.
NextTeardown == NextFullscreen \/ HostCloses

SpecTeardown == InitFullscreen /\ [][NextTeardown]_vars

(***************************************************************************)
(* Properties.                                                             *)
(***************************************************************************)
InFullscreen == isFullscreen \/ isMobileFullscreen

\* No fullscreen or orientation promise is pending and no fullscreenchange
\* event waits to be delivered.
FullscreenSettled ==
  /\ fsEvents = 0
  /\ \A i \in 1..Len(tasks) : tasks[i].kind \notin FullscreenKinds

\* C1: while the player is shown, the controls are visible whenever the
\* playback state is not playing or the fullscreen state is windowed.
C1_ControlsVisibleUnlessPlayingInFullscreen ==
  HasContainer(S) /\ (~isPlaying \/ ~InFullscreen) => showControls

\* C2: at most one hide-controls timer is pending at any time, and it is
\* the one whose handle controlsTimeoutRef holds, so that the next arming
\* cancels it.
C2_AtMostOneHideTimer ==
  /\ Cardinality(TimersOf(S, "hide")) <= 1
  /\ \A t \in TimersOf(S, "hide") : t.id = controlsTimeoutRef

\* The hide timer was armed while an earlier handle was still in the ref.
C2_Witness ==
  \E t \in TimersOf(S, "hide") : t.id = 2 /\ controlsTimeoutRef = 2

\* C3: when the fetch made for an item that is no longer the session's item
\* settles, next, previous, the series list and the current index keep
\* their values.
C3_StaleFetchLeavesContext ==
  [][(\E i \in 1..Len(tasks) :
        /\ tasks[i].kind = "fetch"
        /\ tasks[i].m # media
        /\ tasks' = RemoveAt(tasks, i)
        /\ media' = media)
     => UNCHANGED <<nextEpisode, previousEpisode, episodeList,
                    currentEpisodeIndex>>]_vars

\* C4: when "ended" arrives with a next episode present and autoplay on,
\* the prompt is shown and a countdown capturing that episode is armed; when
\* a countdown expires, it is gone and onRecommendedSelect(next) was called
\* exactly once.
C4_AutoplayCountdown ==
  [][/\ (EngineEnded /\ autoplayNext /\ nextEpisode # 0)
          => /\ showNextEpisode'
             /\ \E t \in timers' \ timers :
                  t.kind = "countdown" /\ t.c.nextEpisode = nextEpisode
     /\ CountdownExpires
          => \E t \in timers \ timers' :
               /\ t.kind = "countdown"
               /\ last'.calls = <<[cb |-> "onRecommendedSelect",
                                   item |-> t.c.nextEpisode]>>]_vars

\* A countdown has just expired and asked the host for the next episode.
C4_Witness ==
  /\ last.op = "countdown"
  /\ last.calls = <<[cb |-> "onRecommendedSelect", item |-> 2]>>
  /\ media = 2

\* C5: Cancel on the next-episode prompt leaves no countdown pending.
C5_CancelClearsCountdown ==
  [][CancelNextEpisode => TimersOf(S, "countdown")' = {}]_vars

\* C6: once toggleFullscreen was called from windowed and, with the entry
\* over, called again, and every fullscreen promise and event it caused is
\* through, the player is windowed and the page has no fullscreen element.
C6_ToggleTwiceEndsWindowed ==
  fsSeq = "exit" /\ FullscreenSettled
    => ~isFullscreen /\ ~isMobileFullscreen /\ ~fullscreenElement

\* The second call has exited a fullscreen mode that the first one reached.
C6_Witness ==
  /\ fsSeq = "exit" /\ FullscreenSettled /\ HasContainer(S)
  /\ ~isFullscreen /\ ~isMobileFullscreen

\* C7: after n togglePlayPause calls with no engine event delivered in
\* between, starting from a paused engine, the engine has been asked to
\* play iff n is odd.
C7_NetIntentIsParity ==
  toggleRun.n > 0 /\ toggleRun.startPaused
    => (~elPaused <=> toggleRun.n % 2 = 1)

\* C8: togglePlayPause called while the engine is not paused and its "play"
\* event is not delivered yet pauses the engine.
C8_ToggleReadsEnginePausedFlag ==
  [][TogglePlayPause /\ ~elPaused /\ ~isPlaying => elPaused']_vars

\* C9: the volume of the state and of the media element is within 0..100.
C9_VolumeInRange ==
  volume \in 0..100 /\ elVolume \in 0..100

\* The volume was stepped into the upper end of its range.
C9_Witness ==
  HasMediaElement(S) /\ volume = 100 /\ elVolume = 100 /\ ~isMuted

\* C10: the playback rate of the state and of the media element is within
\* 0.25..2.0 (hundredths: 25..200).
C10_PlaybackRateInRange ==
  playbackRate \in 25..200 /\ elRate \in 25..200

\* A rate below the range was requested and 0.25 was applied.
C10_Witness ==
  HasMediaElement(S) /\ playbackRate = 25 /\ elRate = 25

\* C11 as stated: a skip moves the engine to its own position plus delta,
\* kept within 0 and the duration, and the position is never negative nor
\* beyond the duration.
C11_SkipFromEnginePosition ==
  /\ [](elTime \in 0..elDuration)
  /\ [][\A seconds \in {-SkipSeconds, SkipSeconds} :
          Skip(IF seconds < 0 THEN "skipBack" ELSE "skipForward", seconds)
            => elTime' = Max(0, Min(elDuration, elTime + seconds))]_vars

\* C11 amended: once the duration is known a skip moves the engine, and the
\* position the player shows, to the position last reported by the engine
\* plus delta, kept within 0 and the duration; the position is never
\* negative nor beyond the duration.
C11_SkipFromReportedPosition ==
  /\ [](/\ elTime \in 0..elDuration
        /\ HasMediaElement(S) => currentTime \in 0..elDuration)
  /\ [][\A seconds \in {-SkipSeconds, SkipSeconds} :
          Skip(IF seconds < 0 THEN "skipBack" ELSE "skipForward", seconds)
             /\ duration # 0
            => /\ elTime' = Max(0, Min(duration, currentTime + seconds))
               /\ currentTime' = elTime']_vars

\* A skip back before the tenth second has put the playing engine at 0.
C11_Witness ==
  /\ last.op = "skipBack" /\ elDuration = MediaDuration
  /\ elTime = 0 /\ currentTime = 0 /\ ~elPaused

\* C12: Escape pressed in fullscreen leaves fullscreen, keeps the session
\* open and calls no host callback; Escape pressed when windowed closes the
\* session with one onClose.
C12_EscapeExitsThenCloses ==
  [][KeyEscape =>
       IF InFullscreen
       THEN isOpen' /\ ~InFullscreen' /\ last'.calls = <<>>
       ELSE ~isOpen' /\ last'.calls = <<[cb |-> "onClose", item |-> 0]>>]_vars

\* Escape has taken a player that was in native fullscreen out of it, the
\* session still open.
C12_Witness ==
  /\ last.op = "escapeFullscreen" /\ fsSeq = "exit"
  /\ isOpen /\ ~InFullscreen /\ isNativeFullscreen

\* The call of fetchEpisodeData made for the media of the session fails
\* on all three requests: one of them throws, or all three are answered
\* without success.
SessionFetchFailsAll ==
  \E i \in 1..Len(tasks) :
    /\ tasks[i].m = media
    /\ FetchThrowsAt(i) \/ FetchAnswers(i, FALSE, FALSE, FALSE)

\* C13: when the requests of the session all fail, the session has no next
\* and no previous episode afterwards; and "ended" in a session with no
\* next episode shows neither the next-episode prompt nor a countdown, but
\* the recommendations when there are any.
C13_FailedDirectoryFallsBack ==
  /\ [][SessionFetchFailsAll => nextEpisode' = 0 /\ previousEpisode' = 0]_vars
  /\ [][EngineEnded /\ nextEpisode = 0
         => /\ ~(showNextEpisode' /\ nextEpisode' # 0)
            /\ TimersOf(S, "countdown")' \subseteq TimersOf(S, "countdown")
            /\ Recommended(S) # {} => showRecommendations']_vars

\* The call of fetchEpisodeData made for the media of the session fails:
\* a request throws, or at least one of the three answers is without
\* success.
SessionFetchFails ==
  \E i \in 1..Len(tasks) :
    /\ tasks[i].m = media
    /\ \/ FetchThrowsAt(i)
       \/ \E nextOk, prevOk, seriesOk \in BOOLEAN :
            /\ ~(nextOk /\ prevOk /\ seriesOk)
            /\ FetchAnswers(i, nextOk, prevOk, seriesOk)

\* C14: after a failed episode fetch of the session, its next episode, its
\* previous episode and its series list are all absent.
C14_FailedFetchClearsContext ==
  [][SessionFetchFails
       => nextEpisode' = 0 /\ previousEpisode' = 0 /\ episodeList' = <<>>]_vars

\* C15: an "error" event of the engine leaves the player not playing and
\* not buffering with its controls visible, leaves no timer pending that
\* would hide the controls afterwards, and makes the player command no
\* play and no load.
C15_ErrorForcesControlsVisible ==
  [][EngineError
       => /\ ~isPlaying' /\ ~isBuffering' /\ showControls'
          /\ TimersOf(S, "hide")' = {} /\ TimersOf(S, "mouseMove")' = {}
          /\ tasks' = tasks /\ elPaused' = elPaused /\ elTime' = elTime]_vars

\* A replace of the session by the player itself: play next, play
\* previous, a pick in the episode list or among the recommendations.
ReplaceSession ==
  PlayNext \/ PlayPrevious \/ PlayFromList \/ RecommendedSelect

\* C16: right after a replace the engine is paused, no timer is pending
\* and the player is windowed.
C16_ReplaceTearsDownFirst ==
  [][ReplaceSession
       => /\ elPaused' /\ timers' = {}
          /\ ~InFullscreen' /\ ~fullscreenElement']_vars

\* C17: a closed player has no timer pending, and it opens again only by
\* a click in the host page, never by a callback of the player.
C17_CloseCancelsTimers ==
  /\ [](~isOpen => timers = {})
  /\ [][~isOpen /\ isOpen' => last'.calls = <<>>]_vars

C19_TeardownLeavesWindowed ==
  ~isOpen /\ FullscreenSettled
    => /\ ~InFullscreen /\ ~fullscreenElement
       /\ ~bodyOverflowHidden /\ ~orientationLocked

\* C20: a close action calls onClose once and nothing else, a play-next,
\* play-previous or selection calls onRecommendedSelect once and nothing
\* else, and no other step but the expiry of the countdown calls the host.
C20_CallbackOncePerAction ==
  /\ last.op \in CloseOps
       => last.calls = <<[cb |-> "onClose", item |-> 0]>>
  /\ last.op \in ReplaceOps
       => \E item \in Items :
            last.calls = <<[cb |-> "onRecommendedSelect", item |-> item]>>
  /\ last.calls # <<>> => last.op \in CloseOps \cup ReplaceOps \cup {"countdown"}

\* The close button has closed the session of episode 2 with one onClose.
C20_Witness ==
  /\ last.op = "handleClose" /\ ~isOpen /\ media = 2
  /\ last.calls = <<[cb |-> "onClose", item |-> 0]>>

\* The browser shows the container in native fullscreen.
NativeFullscreen == fullscreenElement

\* The container is laid out over the viewport by the player itself: on a
\* mobile device the mode that styles the container (lines 643-654, 1259),
\* on a desktop the fullscreen layout with no native fullscreen under it
\* (lines 771-774, 1263).
EmulatedFullscreen ==
  IF mobileDevice THEN isMobileFullscreen ELSE isFullscreen /\ ~fullscreenElement

\* C21: native fullscreen and emulated fullscreen are never active together.
C21_NativeAndEmulatedExclusive == ~(NativeFullscreen /\ EmulatedFullscreen)

\* C22: whenever the player reports fullscreen and no fullscreen request or
\* event is pending, exactly one of native and emulated fullscreen is in
\* effect: every entry, once settled, has reached one mode and only one.
C22_EntryReachesExactlyOneMode ==
  FullscreenSettled /\ HasContainer(S) /\ InFullscreen
    => (NativeFullscreen # EmulatedFullscreen)

\* C23: once toggleFullscreen was called to leave while the entry it
\* follows was still pending, and every fullscreen request and event is
\* through, the player is windowed and the page has no fullscreen element.
C23_ExitDuringPendingEntryEndsWindowed ==
  fsSeq = "exitWhilePending" /\ FullscreenSettled /\ HasContainer(S)
    => ~InFullscreen /\ ~fullscreenElement

\* C24: every step that takes the player out of the mobile emulated mode
\* leaves the page scrolling and the container without the emulated
\* styling, whether or not the orientation could be unlocked and native
\* fullscreen could be left.
C24_MobileExitRestoresPage ==
  [][isMobileFullscreen /\ ~isMobileFullscreen'
       => ~containerStyled' /\ ~bodyOverflowHidden']_vars

\* Escape has taken a mobile player out of the emulated mode it had fallen
\* back to; the orientation is still locked because unlock() threw.
C24_Witness ==
  /\ last.op = "escapeFullscreen" /\ fsSeq = "exit" /\ mobileDevice
  /\ FullscreenSettled /\ orientationLocked
  /\ ~isMobileFullscreen /\ ~isNativeFullscreen /\ ~fullscreenElement
  /\ ~containerStyled /\ ~bodyOverflowHidden

\* The media element delivers a "pause" event to its listener.
PauseDelivered ==
  /\ HasMediaElement(S)
  /\ mediaEvents # <<>>
  /\ Head(mediaEvents) = "pause"
  /\ DeliverMediaEvent

\* C25: a step that delivers "pause", and a step that takes the player out
\* of fullscreen, leaves the controls visible and no hide timer pending.
C25_PauseAndExitShowControls ==
  [][PauseDelivered \/ (InFullscreen /\ ~InFullscreen')
       => showControls' /\ TimersOf(S, "hide")' = {}]_vars

\* An activity signal of the user: the pointer moves over the player or
\* leaves it, or the layer over the hidden controls is clicked.
ActivitySignal == MouseMove \/ MouseLeave \/ ClickToShowControls

\* The hide timer that a step has just armed: it was not pending before and
\* controlsTimeoutRef holds its handle.
FreshHideTimer ==
  \E t \in TimersOf(S, "hide")' : t \notin timers /\ t.id = controlsTimeoutRef'

\* C26: while a video plays in fullscreen, every activity signal leaves the
\* controls visible with a newly armed hide timer as the only one pending;
\* and the controls go from visible to hidden only by the expiry of the hide
\* timer that controlsTimeoutRef holds.
C26_ActivityRestartsCountdown ==
  /\ [][isPlaying /\ InFullscreen /\ MediaType(S) # "image" /\ ActivitySignal
          => /\ showControls'
             /\ FreshHideTimer
             /\ Cardinality(TimersOf(S, "hide")') = 1]_vars
  /\ [][showControls /\ ~showControls'
          => \E t \in TimersOf(S, "hide") :
               t \notin timers' /\ t.id = controlsTimeoutRef]_vars

\* C27: while a session is shown, a next episode, a previous episode and a
\* series list that the player holds are those the directory gives for the
\* media of that session.
C27_ContextBelongsToSession ==
  HasContainer(S)
    => /\ nextEpisode # 0 => nextEpisode = DirNext(media)
       /\ previousEpisode # 0 => previousEpisode = DirPrevious(media)
       /\ episodeList # <<>> => episodeList = DirSeries(media)

\* C28: an explicit play-next and the expiry of the countdown each call
\* onRecommendedSelect once, and right after an explicit play-next no
\* countdown is pending that would replace the session a second time.
C28_OneReplacePerEnded ==
  /\ last.op \in {"playNextEpisode", "countdown"}
       => \E item \in Items :
            last.calls = <<[cb |-> "onRecommendedSelect", item |-> item]>>
  /\ last.op = "playNextEpisode" => TimersOf(S, "countdown") = {}

\* C29: "ended" with no next episode arms no countdown and shows no
\* next-episode prompt, and shows the recommendations when the host gave
\* any; and while the recommendations are shown with no next episode, the
\* host is asked for another media only by a selection of the user.
C29_NoNextShowsRecommendations ==
  /\ [][EngineEnded /\ nextEpisode = 0
          => /\ ~(showNextEpisode' /\ nextEpisode' # 0)
             /\ TimersOf(S, "countdown")' \subseteq TimersOf(S, "countdown")
             /\ Recommended(S) # {} => showRecommendations']_vars
  /\ [][(showRecommendations /\ nextEpisode = 0 /\ last'.calls # <<>>)
          => (last'.calls[1].cb = "onRecommendedSelect"
                => last'.op \in ReplaceOps)]_vars

\* The calls of fetchEpisodeData made for item m among the pending
\* promises ts.
FetchesFor(ts, m) ==
  {i \in 1..Len(ts) : ts[i].kind = "fetch" /\ ts[i].m = m}

\* C30: a step that opens a session leaves the player not playing at
\* position 0 with duration 0, the controls visible with no hide timer
\* pending, both overlays closed, and, for a video, one more episode fetch
\* in flight for the opened item than before.
C30_OpenResetsAndFetches ==
  [][~isOpen /\ isOpen'
       => /\ ~isPlaying' /\ currentTime' = 0 /\ duration' = 0
          /\ showControls' /\ TimersOf(S, "hide")' = {}
          /\ ~showNextEpisode' /\ ~showRecommendations'
          /\ TypeOf(media') = "video"
               => Cardinality(FetchesFor(tasks', media'))
                    = Cardinality(FetchesFor(tasks, media')) + 1]_vars

\* A listener of the media element runs for "play", "pause", "ended" or
\* "error".
PlaybackEventDelivered == DeliverMediaEvent \/ EngineEnded \/ EngineError

\* C31 as stated: isPlaying changes only in a step in which the media
\* element delivers an event.
C31_PlayingChangesOnlyOnEvent ==
  [][isPlaying' # isPlaying => PlaybackEventDelivered]_vars

\* C31 amended: isPlaying changes only in a step in which the media element
\* delivers an event, or to not playing in a step that opens, closes or
\* replaces the session; a togglePlayPause call leaves it as it is.
C31_PlayingChangesOnEventOrReset ==
  /\ [][isPlaying' # isPlaying
          => \/ PlaybackEventDelivered
             \/ (~isPlaying' /\ (isOpen' # isOpen \/ last'.calls # <<>>))]_vars
  /\ [][TogglePlayPause => isPlaying' = isPlaying]_vars

\* togglePlayPause has asked a paused element to play and the "play" event
\* is not delivered yet: the player still reports not playing.
C31_Witness ==
  /\ toggleRun = [n |-> 1, startPaused |-> TRUE]
  /\ ~elPaused /\ mediaEvents = <<"play">> /\ ~isPlaying

\* C32: a "waiting" event sets the buffering flag and a "canplay" event
\* clears it, and neither changes the playing state, the visibility of the
\* controls or the hide timer.
C32_BufferingIndependentOfPlayback ==
  /\ [][EngineWaiting
          => /\ isBuffering'
             /\ UNCHANGED <<isPlaying, showControls, timers,
                            controlsTimeoutRef>>]_vars
  /\ [][EngineCanPlay
          => /\ ~isBuffering'
             /\ UNCHANGED <<isPlaying, showControls, timers,
                            controlsTimeoutRef>>]_vars

\* "waiting" has arrived while the player was playing in fullscreen with the
\* hide timer pending: it buffers, still plays, and the timer still runs.
C32_Witness ==
  /\ isBuffering /\ isPlaying /\ InFullscreen /\ showControls
  /\ TimersOf(S, "hide") # {}

\* C33: a key pressed while the focus is in a text input or a textarea
\* triggers no action of the player: playback, volume, mute, fullscreen,
\* session and episode state are all unchanged, and no callback of the
\* host is called.
C33_KeyInTextFieldIgnored ==
  [][last'.op = "keyInText" => S' = S /\ last'.calls = <<>>]_vars

\* Space, F, M, arrows or Escape pressed in a text field while a video
\* plays in fullscreen: the step is taken and the player is as before.
C33_Witness ==
  /\ last.op = "keyInText"
  /\ isOpen /\ isPlaying /\ ~elPaused /\ isFullscreen /\ volume # InitialVolume

\* C34: a hide timer is pending only while the media plays, some fullscreen
\* mode is active and the media is not an image; so after "ended", "error",
\* "pause" or any exit from fullscreen no hide timer armed earlier is left.
C34_HideTimerOnlyWhilePlayingInFullscreen ==
  TimersOf(S, "hide") # {}
    => isPlaying /\ InFullscreen /\ MediaType(S) # "image"

\* Nothing is in progress: no promise of play() or of a fullscreen request is
\* pending and no event of the element or the document is undelivered, so
\* only a timer or the user can take the next step.
NothingInProgress ==
  /\ mediaEvents = <<>> /\ fsEvents = 0
  /\ \A i \in 1..Len(tasks) : tasks[i].kind = "fetch"

\* C35: while a video plays in fullscreen and the user does nothing more,
\* the controls become hidden at last. Stated on the states where nothing
\* is in progress: with the controls shown, only a pending hide timer (or
\* the delayed handleMouseMove that arms one) can still hide them, so one
\* must be pending, whether playback started in fullscreen or fullscreen
\* was entered while playing.
C35_ControlsHideWhilePlayingInFullscreen ==
  /\ HasMediaElement(S) /\ MediaType(S) = "video"
  /\ isPlaying /\ ~elPaused /\ InFullscreen /\ showControls
  /\ NothingInProgress
  => TimersOf(S, "hide") \cup TimersOf(S, "mouseMove") # {}

\* C36: at most one autoplay countdown is pending at any time, whatever the
\* sequence of "ended" events.
C36_AtMostOneCountdown == Cardinality(TimersOf(S, "countdown")) <= 1

\* C37: a fetch of the episode context that throws writes none of next,
\* previous, the series list and the current index.
C37_ThrowingFetchWritesNothing ==
  [][last'.op = "fetchThrewRecorded"
       => UNCHANGED <<nextEpisode, previousEpisode, episodeList,
                      currentEpisodeIndex>>]_vars

\* A request made for the second episode has thrown in a session that
\* still holds the context fetched for the first one.
C37_Witness ==
  /\ last.op = "fetchThrewRecorded"
  /\ media = 2 /\ nextEpisode = 2 /\ episodeList = DirSeries(1)
  /\ ~episodeLoading

\* C38: while autoplay is disabled, an "ended" event starts no countdown
\* and replaces nothing by itself, with or without a next episode.
C38_NoAutoplayNoCountdown ==
  [][(EngineEnded \/ EngineEndedAgain) /\ ~autoplayNext
       => /\ TimersOf(S, "countdown")' \subseteq TimersOf(S, "countdown")
          /\ showNextEpisode' = showNextEpisode
          /\ media' = media /\ isOpen' = isOpen
          /\ last'.calls = <<>>]_vars

\* Autoplay was switched off after a first "ended" had started a countdown;
\* the media has ended again with a next episode present and no second
\* countdown was started.
C38_Witness ==
  /\ last.op = "handleEndedAgain"
  /\ ~autoplayNext /\ nextEpisode # 0
  /\ Cardinality(TimersOf(S, "countdown")) = 1

\* C39: a video-info result that comes for an item which is not the
\* selected one any more changes nothing: the selected media is neither
\* replaced nor altered, and the player is left as it is.
C39_LateVideoInfoLeavesOtherItem ==
  [][(/\ last'.op = "videoInfo"
       /\ \A i \in 1..Len(tasks) :
            tasks[i].kind = "videoInfo" => tasks[i].m # IdOf(media))
       => /\ media' = media
          /\ \E i \in 1..Len(tasks) :
               S' = [S EXCEPT !.tasks = RemoveAt(tasks, i)]]_vars

\* The second video is open and the result for the first one, requested
\* by an earlier click, has just come: the second video is still selected.
C39_Witness ==
  /\ last.op = "videoInfo"
  /\ isOpen /\ media = 2 /\ isPlaying
  /\ \E i \in 1..Len(tasks) : tasks[i].kind = "videoInfo" /\ tasks[i].m = 2

====
